---- MODULE Spec2Model ----
(***************************************************************************)
(* PlantID Label Designer (streamlit_app.py).                              *)
(*                                                                         *)
(* Two state machines over one set of variables:                           *)
(*   Spec        generate_sheet_direct: the multi-label sheet packer       *)
(*   LayoutSpec  draw_label_on_canvas: the layout of one label             *)
(*                                                                         *)
(* Lengths.  The code works in PDF points held in floats; a millimetre is  *)
(* 72/25.4 = 360/127 points.  The model holds every length as an integer   *)
(* number of units of 1/(127*6000) point, so that a point is 762000 units  *)
(* and a millimetre is 2160000 units.  Every product and quotient the code *)
(* takes (over the input sets below) is then an exact integer: the model   *)
(* is the code's arithmetic over the rationals.                            *)
(***************************************************************************)
EXTENDS Integers, Sequences, FiniteSets, TLC

VARIABLES
    \* ---- generate_sheet_direct ----
    page_format,    \* argument page_format
    label_width,    \* argument label_width  (mm, a number)
    label_height,   \* argument label_height (mm, a number)
    nrows,          \* len(df): the rows of df are 1..nrows, in order
    repeat_count,   \* argument repeat_count
    row,            \* outer loop: index of the current row of df.iterrows()
    rep,            \* inner loop: the copies of the current row done so far
    x, y,           \* the cursor
    page,           \* number of c.showPage() calls made so far
    placed,         \* the labels drawn: <<[row, page, x, y], ...>>
    pc,             \* "loop" | "wrap" | "break" | "done" ; "idle" under
                    \* LayoutSpec
    \* ---- draw_label_on_canvas ----
    cfg,            \* the keyword arguments of draw_label_on_canvas
    df_row,         \* the record: a function from its columns to strings
    side_col_width, \* local
    text_x,         \* local
    idx,            \* local: index of the text row loop
    cmds,           \* the drawing operations issued on the canvas, in order
    lpc             \* "border" | "sidebar" | "code" | "rows" | "done" |
                    \* "error" ; "idle" under Spec

pvars == <<page_format, label_width, label_height, nrows, repeat_count,
           row, rep, x, y, page, placed, pc>>
lvars == <<cfg, df_row, side_col_width, text_x, idx, cmds, lpc>>
vars == <<pvars, lvars>>

(***************************************************************************)
(* Units                                                                   *)
(***************************************************************************)
pt == 762000
mm == 2160000
inch == 72 * pt

A4 == <<210 * mm, 297 * mm>>
letter == <<(17 * inch) \div 2, 11 * inch>>

(***************************************************************************)
(* Bounds of the model                                                     *)
(***************************************************************************)
MaxRows == 3
MaxCopies == 2

PageFormats == {"A4", "Letter", "LabelPrinter"}
\* <<label_width, label_height>> in mm: the default, three sizes that wrap
\* and break pages within a few labels, and the widest preset.
LabelSizes == {<<70, 35>>, <<98, 93>>, <<64, 100>>, <<254, 25>>}

(***************************************************************************)
(* generate_sheet_direct                                                   *)
(***************************************************************************)
\* Page size logic: <<page_width, page_height, margin>>
PageSetup(fmt, lw, lh) ==
    IF fmt = "A4" THEN <<A4[1], A4[2], 5 * mm>>
    ELSE IF fmt = "Letter" THEN <<letter[1], letter[2], 5 * mm>>
    ELSE IF fmt = "LabelPrinter" THEN <<lw * mm, lh * mm, 0>>
    ELSE <<A4[1], A4[2], 5 * mm>>

page_width == PageSetup(page_format, label_width, label_height)[1]
page_height == PageSetup(page_format, label_width, label_height)[2]
margin == PageSetup(page_format, label_width, label_height)[3]

StartY_NoLabelHeight == page_height - margin

\* The cursor's initial corner
StartX == margin
StartY == page_height - label_height * mm - margin

AdvanceX_NoMargin(cx) == cx + label_width * mm

\* x += label_width * mm + margin
AdvanceX(cx) == cx + label_width * mm + margin

RowOverflows_NoWidth(cx) == cx > page_width

\* if x + label_width * mm > page_width
RowOverflows(cx) == cx + label_width * mm > page_width

DropRow_NoMargin(cy) == cy - label_height * mm

\* y -= label_height * mm + margin
DropRow(cy) == cy - (label_height * mm + margin)

PageOverflows_NoMargin(cy) == cy < 0

\* if y < margin
PageOverflows(cy) == cy < margin

CopyDue_OffByOne == rep <= repeat_count

CopyDue_DoWhile == rep < repeat_count \/ rep = 0

\* for _ in range(repeat_count): another copy of the current row is due
CopyDue == rep < repeat_count

IdleLayout ==
    /\ cfg = <<>>
    /\ df_row = <<>>
    /\ side_col_width = 0
    /\ text_x = 0
    /\ idx = 0
    /\ cmds = <<>>
    /\ lpc = "idle"

Init ==
    /\ page_format \in PageFormats
    /\ \E sz \in LabelSizes : label_width = sz[1] /\ label_height = sz[2]
    /\ nrows \in 0..MaxRows
    /\ repeat_count \in 0..MaxCopies
    /\ row = 1
    /\ rep = 0
    /\ x = StartX
    /\ y = StartY
    /\ page = 0
    /\ placed = <<>>
    /\ pc = "loop"
    /\ IdleLayout

\* The inner loop body up to line 361: draw the label at the cursor, then
\* x += label_width * mm + margin.
PlaceLabel ==
    /\ pc = "loop"
    /\ row <= nrows
    /\ CopyDue
    /\ placed' = Append(placed, [row |-> row, page |-> page, x |-> x, y |-> y])
    /\ x' = AdvanceX(x)
    /\ rep' = rep + 1
    /\ pc' = "wrap"
    /\ UNCHANGED <<page_format, label_width, label_height, nrows,
                   repeat_count, row, y, page>>
    /\ UNCHANGED lvars

\* Lines 362-364: the row overflow check and the row drop.
WrapRow ==
    /\ pc = "wrap"
    /\ IF RowOverflows(x)
       THEN /\ x' = margin
            /\ y' = DropRow(y)
            /\ pc' = "break"
       ELSE /\ pc' = "loop"
            /\ UNCHANGED <<x, y>>
    /\ UNCHANGED <<page_format, label_width, label_height, nrows,
                   repeat_count, row, rep, page, placed>>
    /\ UNCHANGED lvars

\* Lines 365-368: the page overflow check and the page break.
PageBreak ==
    /\ pc = "break"
    /\ IF PageOverflows(y)
       THEN /\ page' = page + 1
            /\ x' = StartX
            /\ y' = StartY
       ELSE UNCHANGED <<x, y, page>>
    /\ pc' = "loop"
    /\ UNCHANGED <<page_format, label_width, label_height, nrows,
                   repeat_count, row, rep, placed>>
    /\ UNCHANGED lvars

\* The inner loop is exhausted: the outer loop takes the next row of df.
NextRow ==
    /\ pc = "loop"
    /\ row <= nrows
    /\ ~CopyDue
    /\ row' = row + 1
    /\ rep' = 0
    /\ UNCHANGED <<page_format, label_width, label_height, nrows,
                   repeat_count, x, y, page, placed, pc>>
    /\ UNCHANGED lvars

\* The outer loop is exhausted: c.save() and return.
Save ==
    /\ pc = "loop"
    /\ row > nrows
    /\ pc' = "done"
    /\ UNCHANGED <<page_format, label_width, label_height, nrows,
                   repeat_count, row, rep, x, y, page, placed>>
    /\ UNCHANGED lvars

Next == PlaceLabel \/ WrapRow \/ PageBreak \/ NextRow \/ Save

Spec == Init /\ [][Next]_vars

(***************************************************************************)
(* draw_label_on_canvas                                                    *)
(*                                                                         *)
(* cfg holds the arguments: x, y (the label's origin on the canvas),       *)
(* visible_columns, code_column, code_type, highlight_column, label_font,  *)
(* label_font_size, label_width, label_height, qr_size, barcode_width,     *)
(* barcode_height, row_height_factor (in tenths), sidebar_factor (in       *)
(* hundredths), highlight_padding, padding, show_border,                   *)
(* show_column_names, side_highlight, qr_left_offset, text_left_offset.    *)
(* df_row is a function from the record's column names to its values,      *)
(* which are strings (str() leaves them as they are).                      *)
(***************************************************************************)
MaxCols == 2

None == "<None>"
Columns == {"ID", "Species"}

\* The record of the model: a row of the example dataset.
ExampleRow == [c \in Columns |-> IF c = "ID" THEN "P001" ELSE "Wheat"]

\* f"{col_name}:"
ColLabel(col_name) == IF col_name = "ID" THEN "ID:" ELSE "Species:"

\* len(val)
StrLen(val) ==
    IF val = "P001" THEN 4
    ELSE IF val = "Wheat" THEN 5
    ELSE IF val = "ID:" THEN 3
    ELSE IF val = "Species:" THEN 8
    ELSE 0

\* v * num / den, for den a divisor of v
Scaled(v, num, den) == (v \div den) * num

Max(a, b) == IF a >= b THEN a ELSE b

font_variant(base_font, variant) ==
    LET family == IF base_font \in {"Helvetica", "Times-Roman", "Courier"}
                  THEN base_font ELSE "Helvetica"
    IN  IF variant \notin {"regular", "bold", "italic", "bold_italic"}
        THEN base_font
        ELSE IF family = "Helvetica"
        THEN (IF variant = "regular" THEN "Helvetica"
              ELSE IF variant = "bold" THEN "Helvetica-Bold"
              ELSE IF variant = "italic" THEN "Helvetica-Oblique"
              ELSE "Helvetica-BoldOblique")
        ELSE IF family = "Times-Roman"
        THEN (IF variant = "regular" THEN "Times-Roman"
              ELSE IF variant = "bold" THEN "Times-Bold"
              ELSE IF variant = "italic" THEN "Times-Italic"
              ELSE "Times-BoldItalic")
        ELSE (IF variant = "regular" THEN "Courier"
              ELSE IF variant = "bold" THEN "Courier-Bold"
              ELSE IF variant = "italic" THEN "Courier-Oblique"
              ELSE "Courier-BoldOblique")

\* The advance width of a text in thousandths of the font size: the sums of
\* the standard fonts' glyph widths.  Courier is monospaced at 600.
TextMilli(text, fontName) ==
    IF fontName \in {"Courier", "Courier-Bold", "Courier-Oblique",
                     "Courier-BoldOblique"}
    THEN 600 * StrLen(text)
    ELSE IF fontName \in {"Helvetica-Bold", "Helvetica-BoldOblique"}
    THEN (IF text = "P001" THEN 2335
          ELSE IF text = "Wheat" THEN 3000
          ELSE IF text = "ID:" THEN 1333
          ELSE IF text = "Species:" THEN 4223
          ELSE 0)
    ELSE (IF text = "P001" THEN 2335
          ELSE IF text = "Wheat" THEN 2890
          ELSE IF text = "ID:" THEN 1278
          ELSE IF text = "Species:" THEN 3835
          ELSE 0)

\* reportlab.pdfbase.pdfmetrics.stringWidth(text, fontName, fontSize)
stringWidth(text, fontName, fontSize) ==
    TextMilli(text, fontName) * fontSize * (pt \div 1000)

lw_pt == cfg.label_width * mm
lh_pt == cfg.label_height * mm
pad_pt == cfg.padding * mm

HasColumn(col_name) == col_name \in DOMAIN df_row

\* One drawing operation on the canvas.  line is the source line of the
\* call; fill and stroke are the colours the call paints with ("none" when
\* it does not); rot is the rotation in force, in degrees.
Cmd(line, op, cx, cy, w, h, text, font, size, fill, stroke, rot) ==
    [line |-> line, op |-> op, x |-> cx, y |-> cy, w |-> w, h |-> h,
     text |-> text, font |-> font, size |-> size, fill |-> fill,
     stroke |-> stroke, rot |-> rot]

BorderCmds_Always ==
    << Cmd(182, "rect", cfg.x, cfg.y, lw_pt, lh_pt, "", "", 0,
           "none", "lightgrey", 0) >>

\* ---- 1. Outer border ----
BorderCmds ==
    IF cfg.show_border
    THEN << Cmd(182, "rect", cfg.x, cfg.y, lw_pt, lh_pt, "", "", 0,
                "none", "lightgrey", 0) >>
    ELSE << >>

DrawBorder ==
    /\ lpc = "border"
    /\ cmds' = cmds \o BorderCmds
    /\ lpc' = "sidebar"
    /\ UNCHANGED <<cfg, df_row, side_col_width, text_x, idx>>
    /\ UNCHANGED pvars

\* ---- 2. Sidebar ----
SidebarOn == cfg.side_highlight /\ cfg.highlight_column # None

SideColWidth == Scaled(lw_pt, cfg.sidebar_factor, 100)

\* val_w of line 194
SideValW ==
    stringWidth(df_row[cfg.highlight_column],
                font_variant(cfg.label_font, "bold"), cfg.label_font_size)
    + cfg.highlight_padding * pt

\* nam_w of line 195
SideNamW ==
    stringWidth(ColLabel(cfg.highlight_column),
                font_variant(cfg.label_font, "italic"), cfg.label_font_size)

SideGap == 1 * mm

SideTotalH_NoGap == SideNamW + SideValW

SideTotalH == SideNamW + SideGap + SideValW

SidebarBottom == cfg.y + (lh_pt - SideTotalH) \div 2

SideValRectY == SidebarBottom + SideNamW + SideGap

SidebarCmds ==
    << Cmd(206, "drawCentredString",
           cfg.x + SideColWidth \div 2, SidebarBottom + SideNamW \div 2,
           0, 0, ColLabel(cfg.highlight_column),
           font_variant(cfg.label_font, "italic"), cfg.label_font_size,
           "black", "none", 90),
       Cmd(213, "rect", cfg.x, SideValRectY, SideColWidth, SideValW,
           "", "", 0, "black", "none", 0),
       Cmd(218, "drawCentredString",
           cfg.x + SideColWidth \div 2, SideValRectY + SideValW \div 2,
           0, 0, df_row[cfg.highlight_column],
           font_variant(cfg.label_font, "bold"), cfg.label_font_size,
           "white", "none", 90) >>

DrawSidebar ==
    /\ lpc = "sidebar"
    /\ IF SidebarOn
       THEN /\ side_col_width' = SideColWidth
            /\ IF HasColumn(cfg.highlight_column)
               THEN /\ cmds' = cmds \o SidebarCmds
                    /\ lpc' = "code"
               ELSE \* df_row[highlight_column] raises KeyError
                    /\ lpc' = "error"
                    /\ UNCHANGED cmds
       ELSE /\ side_col_width' = 0
            /\ lpc' = "code"
            /\ UNCHANGED cmds
    /\ UNCHANGED <<cfg, df_row, text_x, idx>>
    /\ UNCHANGED pvars

\* ---- 3. Code (QR/Barcode) ----
CodeOn == cfg.code_column # None /\ cfg.code_type # "None"

code_x == cfg.x + side_col_width + cfg.qr_left_offset * mm

\* Line 223: the text start when no code is drawn
TextXNoCode == cfg.x + side_col_width + pad_pt

TextXAfterCode_NoGutter(symbol_w) == code_x + symbol_w

\* Lines 237 and 252: the text start past the symbol
TextXAfterCode(symbol_w) == code_x + symbol_w + 2 * mm

qr_pt == cfg.qr_size * mm
bw_pt == cfg.barcode_width * mm
bh_pt == cfg.barcode_height * mm

CodeCmds ==
    IF cfg.code_type = "QR"
    THEN << Cmd(236, "qr", code_x, cfg.y + (lh_pt - qr_pt) \div 2,
                qr_pt, qr_pt, df_row[cfg.code_column], "", 0,
                "black", "none", 0) >>
    ELSE IF cfg.code_type = "Barcode"
    THEN \* size holds the divisor of barWidth, max(len(val) * 11, 1)
         << Cmd(251, "barcode", code_x, cfg.y + (lh_pt - bh_pt) \div 2,
                bw_pt, bh_pt, df_row[cfg.code_column], "",
                Max(StrLen(df_row[cfg.code_column]) * 11, 1),
                "black", "none", 0) >>
    ELSE << >>

\* text_x as line 254 leaves it
TextX ==
    (IF ~CodeOn THEN TextXNoCode
     ELSE IF cfg.code_type = "QR" THEN TextXAfterCode(qr_pt)
     ELSE IF cfg.code_type = "Barcode" THEN TextXAfterCode(bw_pt)
     ELSE TextXNoCode)
    + cfg.text_left_offset * mm

\* Line 257: the divisor of the row height
row_count_NoFloor == Len(cfg.visible_columns)

row_count == Max(Len(cfg.visible_columns), 1)

DrawCode ==
    /\ lpc = "code"
    /\ IF CodeOn /\ ~HasColumn(cfg.code_column)
       THEN \* df_row[code_column] raises KeyError
            /\ lpc' = "error"
            /\ text_x' = TextXNoCode
            /\ UNCHANGED cmds
       ELSE /\ cmds' = IF CodeOn THEN cmds \o CodeCmds ELSE cmds
            /\ text_x' = TextX
            \* line 258 divides by row_count: ZeroDivisionError if it is 0
            /\ lpc' = IF row_count = 0 THEN "error" ELSE "rows"
    /\ idx' = 0
    /\ UNCHANGED <<cfg, df_row, side_col_width>>
    /\ UNCHANGED pvars

\* ---- 4. Text rows ----

row_height_NoFactor == Scaled(lh_pt - 2 * pad_pt, 1, row_count)

row_height ==
    Scaled(Scaled(lh_pt - 2 * pad_pt, 1, row_count),
           cfg.row_height_factor, 10)

text_y_start == cfg.y + lh_pt - pad_pt - Scaled(row_height, 1, 10)

avail_w == lw_pt - (text_x - cfg.x) - pad_pt

\* y_pos of the row with index i (from 0)
y_pos(i) == text_y_start - i * row_height

HighlightW_NoPadding(val) ==
    stringWidth(val, font_variant(cfg.label_font, "bold"),
                cfg.label_font_size)

\* v_w of line 274
HighlightW(val) ==
    stringWidth(val, font_variant(cfg.label_font, "bold"),
                cfg.label_font_size)
    + cfg.highlight_padding * pt

highlight_height == Max(6, cfg.label_font_size + 2) * pt

ColumnNameCmds(i, col_name) ==
    IF cfg.show_column_names
    THEN << Cmd(270, "drawRightString",
                text_x + Scaled(avail_w, 7, 20), y_pos(i), 0, 0,
                ColLabel(col_name),
                font_variant(cfg.label_font, "italic"), cfg.label_font_size,
                "black", "none", 0) >>
    ELSE << >>

ValueCmds(i, col_name, val) ==
    IF col_name = cfg.highlight_column
    THEN << Cmd(278, "rect",
                text_x + Scaled(avail_w, 2, 5) - 2 * pt,
                y_pos(i) - Scaled(cfg.label_font_size * pt, 3, 10),
                HighlightW(val), highlight_height, "", "", 0,
                "black", "black", 0),
            Cmd(280, "drawString",
                text_x + Scaled(avail_w, 2, 5), y_pos(i), 0, 0, val,
                font_variant(cfg.label_font, "bold"), cfg.label_font_size,
                "white", "none", 0) >>
    ELSE << Cmd(284, "drawString",
                text_x + Scaled(avail_w, 2, 5), y_pos(i), 0, 0, val,
                font_variant(cfg.label_font, "regular"),
                cfg.label_font_size, "black", "none", 0) >>

\* One pass of the loop over enumerate(visible_columns)
DrawTextRow ==
    /\ lpc = "rows"
    /\ idx < Len(cfg.visible_columns)
    /\ LET col_name == cfg.visible_columns[idx + 1] IN
         IF HasColumn(col_name)
         THEN /\ cmds' = cmds \o ColumnNameCmds(idx, col_name)
                              \o ValueCmds(idx, col_name, df_row[col_name])
              /\ idx' = idx + 1
              /\ lpc' = "rows"
         ELSE \* df_row[col_name] raises KeyError
              /\ lpc' = "error"
              /\ UNCHANGED <<cmds, idx>>
    /\ UNCHANGED <<cfg, df_row, side_col_width, text_x>>
    /\ UNCHANGED pvars

\* The loop is exhausted: the function returns.
Return ==
    /\ lpc = "rows"
    /\ idx = Len(cfg.visible_columns)
    /\ lpc' = "done"
    /\ UNCHANGED <<cfg, df_row, side_col_width, text_x, idx, cmds>>
    /\ UNCHANGED pvars

(***************************************************************************)
(* The arguments the model calls draw_label_on_canvas with                 *)
(***************************************************************************)
\* Lists of columns of length at most n
ColumnLists(n) ==
    UNION {[1..k -> Columns] : k \in 0..n}

\* <<code_type, code_column, qr_size, barcode_width, barcode_height>>
CodeChoices ==
    { <<"None", None, 0, 0, 0>>,
      <<"QR", "ID", 18, 0, 0>>,
      <<"QR", "ID", 0, 0, 0>>,
      <<"Barcode", "ID", 0, 25, 10>>,
      <<"QR", None, 18, 0, 0>> }

\* <<highlight_column, side_highlight, sidebar_factor, highlight_padding>>
HighlightChoices ==
    { <<None, FALSE, 0, 0>>,
      <<"ID", FALSE, 0, 2>>,
      <<"ID", TRUE, 10, 2>>,
      <<"Species", TRUE, 25, 0>>,
      <<"Species", TRUE, 10, 5>>,
      <<None, TRUE, 25, 2>> }

\* <<x, y>>: the preview's origin and a sheet cursor
Origins == { <<0, 0>>, <<5 * mm, 257 * mm>> }

\* <<label_width, label_height>>
LayoutLabelSizes == { <<70, 35>>, <<25, 12>> }

\* <<label_font, label_font_size, row_height_factor>>
TextStyles == { <<"Helvetica", 7, 9>>, <<"Courier", 4, 15>> }

\* <<padding, qr_left_offset, text_left_offset>>
Offsets == {4, 2} \X {2, 5} \X {0, 3}

\* The records: the example row and the same row without its ID column
Records == { ExampleRow, [c \in {"Species"} |-> ExampleRow[c]] }

IdlePacker ==
    /\ page_format = "LabelPrinter"
    /\ label_width = 0
    /\ label_height = 0
    /\ nrows = 0
    /\ repeat_count = 0
    /\ row = 0
    /\ rep = 0
    /\ x = 0
    /\ y = 0
    /\ page = 0
    /\ placed = <<>>
    /\ pc = "idle"

LayoutInit ==
    /\ IdlePacker
    /\ \E o \in Origins, sz \in LayoutLabelSizes, code \in CodeChoices,
          hl \in HighlightChoices, off \in Offsets,
          vis \in ColumnLists(MaxCols), style \in TextStyles,
          border \in BOOLEAN, names \in BOOLEAN :
          cfg = [x |-> o[1], y |-> o[2],
                 visible_columns |-> vis,
                 code_column |-> code[2], code_type |-> code[1],
                 highlight_column |-> hl[1],
                 label_font |-> style[1], label_font_size |-> style[2],
                 label_width |-> sz[1], label_height |-> sz[2],
                 qr_size |-> code[3],
                 barcode_width |-> code[4], barcode_height |-> code[5],
                 row_height_factor |-> style[3],
                 sidebar_factor |-> hl[3], highlight_padding |-> hl[4],
                 padding |-> off[1],
                 show_border |-> border, show_column_names |-> names,
                 side_highlight |-> hl[2],
                 qr_left_offset |-> off[2], text_left_offset |-> off[3]]
    /\ df_row \in Records
    /\ side_col_width = 0
    /\ text_x = 0
    /\ idx = 0
    /\ cmds = <<>>
    /\ lpc = "border"

LayoutNext == DrawBorder \/ DrawSidebar \/ DrawCode \/ DrawTextRow \/ Return

LayoutSpec == LayoutInit /\ [][LayoutNext]_vars

(***************************************************************************)
(* Properties of generate_sheet_direct (checked under Spec)                *)
(***************************************************************************)
\* The page geometry as the specification states it, written out in full.
SheetMode == page_format \in {"A4", "Letter"}
ExpMargin == IF SheetMode THEN 5 * mm ELSE 0
ExpPageWidth ==
    IF page_format = "A4" THEN 210 * mm
    ELSE IF page_format = "Letter" THEN 612 * pt
    ELSE label_width * mm
ExpPageHeight ==
    IF page_format = "A4" THEN 297 * mm
    ELSE IF page_format = "Letter" THEN 792 * pt
    ELSE label_height * mm
ExpStartY == ExpPageHeight - label_height * mm - ExpMargin

\* C1: packing R records with C copies each emits exactly R*C placements, in
\* record order, the C copies of a record consecutive and before any
\* placement of the next record.
C1_CopiesInRecordOrder ==
    /\ \A k \in 1..Len(placed) :
          /\ repeat_count > 0
          /\ placed[k].row = ((k - 1) \div repeat_count) + 1
    /\ pc = "done" => Len(placed) = nrows * repeat_count

C1_Witness ==
    /\ pc = "done"
    /\ nrows = 3
    /\ repeat_count = 2
    /\ Len(placed) = 6
    /\ [k \in 1..6 |-> placed[k].row] = <<1, 1, 2, 2, 3, 3>>

\* C2: in LabelPrinter (exact) page mode every label is placed at the origin
\* (0, 0) and the k-th placement (0-based) is the only label on page k: the
\* wraparound and the page break fire after every single placement.
C2_ExactOnePerPage ==
    page_format = "LabelPrinter" =>
        /\ \A k \in 1..Len(placed) :
              /\ placed[k].x = 0
              /\ placed[k].y = 0
              /\ placed[k].page = k - 1
        /\ pc \in {"loop", "done"} => (x = 0 /\ y = 0 /\ page = Len(placed))
        /\ pc = "wrap" => x + label_width * mm > ExpPageWidth
        /\ pc = "break" => y < 0

C2_Witness ==
    /\ page_format = "LabelPrinter"
    /\ pc = "done"
    /\ Len(placed) >= 3
    /\ page = Len(placed)

\* C3: in sheet mode the cursor starts at (margin, pageHeight - labelHeight -
\* margin); a placement draws at the cursor and then advances x by
\* labelWidth + margin; the overflow check that follows wraps to x = margin
\* and lowers y by labelHeight + margin exactly when x + labelWidth >
\* pageWidth; no step changes a label already placed.
C3_Step ==
    SheetMode =>
        /\ (pc = "loop" /\ pc' = "wrap") =>
              /\ placed' = Append(placed, [row |-> row, page |-> page,
                                           x |-> x, y |-> y])
              /\ x' = x + label_width * mm + 5 * mm
              /\ y' = y
        /\ pc = "wrap" =>
              /\ placed' = placed
              /\ IF x + label_width * mm > ExpPageWidth
                 THEN /\ x' = 5 * mm
                      /\ y' = y - (label_height * mm + 5 * mm)
                 ELSE /\ x' = x
                      /\ y' = y
        /\ Len(placed') >= Len(placed)
        /\ \A k \in 1..Len(placed) : placed'[k] = placed[k]

\* C3: the sheet-mode cursor starts at the initial corner and every step
\* moves it as C3_Step says.
C3_SheetCursor ==
    /\ SheetMode => (x = 5 * mm /\ y = ExpStartY)
    /\ [][C3_Step]_vars

C3_Witness ==
    /\ page_format = "A4"
    /\ label_width = 70
    /\ Len(placed) = 3
    /\ placed[2].x = placed[1].x + 75 * mm
    /\ placed[2].y = placed[1].y
    /\ placed[3].x = 5 * mm
    /\ placed[3].y = placed[1].y - 40 * mm

\* The origins of the six placements of 70x35mm labels on an A4 sheet.
C4_Example ==
    <<  <<5 * mm, 257 * mm>>, <<80 * mm, 257 * mm>>,
        <<5 * mm, 217 * mm>>, <<80 * mm, 217 * mm>>,
        <<5 * mm, 177 * mm>>, <<80 * mm, 177 * mm>>  >>

C4_ExampleHolds ==
    (page_format = "A4" /\ label_width = 70 /\ label_height = 35) =>
        \A k \in 1..Len(placed) :
            k <= 6 => /\ <<placed[k].x, placed[k].y>> = C4_Example[k]
                      /\ placed[k].page = 0

\* C4 as stated: in sheet mode a label is placed at cursor x only if it
\* stays left of the right margin, x + labelWidth <= pageWidth - margin.
C4_Original ==
    /\ SheetMode =>
          \A k \in 1..Len(placed) :
              placed[k].x + label_width * mm <= ExpPageWidth - 5 * mm
    /\ C4_ExampleHolds

\* C4 as amended: in sheet mode a label that is not the first of its row
\* (x > margin) is placed at cursor x only if x + labelWidth <= pageWidth;
\* the first label of a row is placed at x = margin whatever its width.  The
\* 70x35mm example on a 210x297mm sheet holds as stated.
C4_RowFill ==
    /\ SheetMode =>
          \A k \in 1..Len(placed) :
              \/ placed[k].x = 5 * mm
              \/ /\ placed[k].x > 5 * mm
                 /\ placed[k].x + label_width * mm <= ExpPageWidth
    /\ C4_ExampleHolds

C4_Witness ==
    /\ page_format = "A4"
    /\ label_width = 70
    /\ label_height = 35
    /\ pc = "done"
    /\ Len(placed) = 6
    /\ page = 0

\* C5: whenever a row drop leaves the cursor with y < margin the packer
\* starts a new page (the page index grows by exactly one) and resets the
\* cursor to the initial corner; no other step changes the page index, it
\* never decreases, and every placement is made on the current page, so the
\* placements after a break are on the new page.
C5_Step ==
    /\ IF pc = "break" /\ y < ExpMargin
       THEN /\ page' = page + 1
            /\ x' = ExpMargin
            /\ y' = ExpStartY
       ELSE page' = page
    /\ Len(placed') > Len(placed) => placed'[Len(placed')].page = page
    /\ \A k \in 1..Len(placed') : placed'[k].page <= page'
    /\ \A j, k \in 1..Len(placed') :
          j <= k => placed'[j].page <= placed'[k].page

\* C5: every step treats the page index as C5_Step says.
C5_PageBreak == [][C5_Step]_vars

C5_Witness ==
    /\ SheetMode
    /\ Len(placed) = 5
    /\ placed[4].page = 0
    /\ placed[5].page = 1
    /\ placed[5].x = 5 * mm
    /\ placed[5].y = ExpStartY

\* C6: with zero records or zero copies per record nothing is placed, the
\* cursor never moves, no page break is recorded, and the packer runs to its
\* normal end.
C6_Degenerate ==
    (nrows = 0 \/ repeat_count = 0) =>
        /\ placed = <<>>
        /\ x = ExpMargin
        /\ y = ExpStartY
        /\ page = 0
        /\ pc \in {"loop", "done"}
        /\ pc = "done" \/ ENABLED Next

C6_Witness ==
    /\ pc = "done"
    /\ nrows > 0
    /\ repeat_count = 0
    /\ placed = <<>>

\* The label fits the sheet: one label and its margins are inside the page
C15_LabelFits ==
    /\ SheetMode
    /\ label_width > 0
    /\ label_height > 0
    /\ ExpMargin + label_width * mm <= ExpPageWidth
    /\ label_height * mm + 2 * ExpMargin <= ExpPageHeight

C15_Abs(v) == IF v < 0 THEN -v ELSE v

\* C15: in Sheet mode with a label that fits the page, at every moment each
\* placed label's rectangle [x, x + labelWidth] x [y, y + labelHeight] is
\* inside the page with x >= margin and y >= margin, and two labels placed
\* on one page are at least labelWidth + margin apart in x or at least
\* labelHeight + margin apart in y, so they do not overlap.
C15_InsideAndDisjoint ==
    C15_LabelFits =>
        \A k \in 1..Len(placed) :
            /\ placed[k].x >= ExpMargin
            /\ placed[k].y >= ExpMargin
            /\ placed[k].x + label_width * mm <= ExpPageWidth
            /\ placed[k].y + label_height * mm <= ExpPageHeight
            /\ \A j \in 1..(k - 1) :
                  placed[j].page = placed[k].page =>
                     \/ C15_Abs(placed[j].x - placed[k].x)
                           >= label_width * mm + ExpMargin
                     \/ C15_Abs(placed[j].y - placed[k].y)
                           >= label_height * mm + ExpMargin

C15_Witness ==
    /\ C15_LabelFits
    /\ page_format = "A4"
    /\ label_width = 98
    /\ Len(placed) = 6
    /\ placed[2].x = 108 * mm
    /\ placed[3].y = 101 * mm
    /\ placed[4].page = placed[1].page
    /\ placed[5].page # placed[4].page
    /\ placed[6].y = placed[5].y

(***************************************************************************)
(* Properties of draw_label_on_canvas (checked under LayoutSpec)           *)
(***************************************************************************)
\* The text row commands: the values (lines 280, 284), the column names
\* (line 270) and the inline highlight rectangles (line 278).
IsValueCmd(c) == c.line \in {280, 284}
IsNameCmd(c) == c.line = 270
IsHighlightRect(c) == c.line = 278
ValueCmdsDrawn == SelectSeq(cmds, IsValueCmd)
NameCmdsDrawn == SelectSeq(cmds, IsNameCmd)
HighlightRectsDrawn == SelectSeq(cmds, IsHighlightRect)

\* C7: laying out a label never fails: a column named in visible_columns,
\* code_column or highlight_column that the record lacks is taken as the
\* empty string and the layout still completes.
C7_NeverFails == lpc # "error"

\* C8: for N >= 1 visible columns the layout emits exactly N value commands
\* and N column-name commands if show_column_names (none otherwise), at N
\* distinct heights; row k (from 0) has its baseline at
\* y + labelHeight - padding - 0.1*rowHeight - k*rowHeight, where
\* rowHeight = ((labelHeight - 2*padding) / N) * rowHeightFactor.
C8_RowHeight ==
    ((cfg.label_height - 2 * cfg.padding) * mm * cfg.row_height_factor)
        \div (10 * Len(cfg.visible_columns))

C8_Baseline(k) ==
    cfg.y + cfg.label_height * mm - cfg.padding * mm
    - C8_RowHeight \div 10 - k * C8_RowHeight

C8_TextRows ==
    (lpc = "done" /\ Len(cfg.visible_columns) >= 1) =>
        LET N == Len(cfg.visible_columns) IN
        /\ Len(ValueCmdsDrawn) = N
        /\ Len(NameCmdsDrawn) = IF cfg.show_column_names THEN N ELSE 0
        /\ \A k \in 1..N :
              /\ ValueCmdsDrawn[k].y = C8_Baseline(k - 1)
              /\ ValueCmdsDrawn[k].text = df_row[cfg.visible_columns[k]]
              /\ cfg.show_column_names =>
                    /\ NameCmdsDrawn[k].y = C8_Baseline(k - 1)
                    /\ NameCmdsDrawn[k].text
                          = ColLabel(cfg.visible_columns[k])
        /\ \A j, k \in 1..N :
              j # k => ValueCmdsDrawn[j].y # ValueCmdsDrawn[k].y
        /\ \A k \in 1..(N - 1) :
              ValueCmdsDrawn[k].y - ValueCmdsDrawn[k + 1].y = C8_RowHeight

C8_Witness ==
    /\ lpc = "done"
    /\ Len(cfg.visible_columns) = 2
    /\ cfg.show_column_names
    /\ Len(ValueCmdsDrawn) = 2
    /\ Len(NameCmdsDrawn) = 2
    /\ cfg.row_height_factor = 15

\* C9: a layout with code_type QR and qr_size 0 is equivalent to one with
\* code_type None: no symbol is drawn (a symbol of size zero is taken as no
\* symbol) and the text column starts where it starts without a code, at
\* x + sideStripWidth + padding + textLeftOffset.
C9_QrZeroIsNone ==
    (/\ cfg.code_type = "QR"
     /\ cfg.code_column # None
     /\ cfg.qr_size = 0
     /\ lpc \in {"rows", "done"}) =>
        /\ \A k \in 1..Len(cmds) : cmds[k].op = "qr" => cmds[k].w = 0
        /\ text_x = cfg.x + side_col_width + cfg.padding * mm
                       + cfg.text_left_offset * mm

\* C10: the black rectangle behind a highlighted value is as long as the
\* value's measured width in the bold variant plus highlight_padding,
\* whatever the label's width and height and the sidebar factor: the inline
\* rectangle's width, and the side strip box's extent along its rotated text.
C10_FitWidth ==
    stringWidth(df_row[cfg.highlight_column],
                font_variant(cfg.label_font, "bold"), cfg.label_font_size)
    + cfg.highlight_padding * pt

C10_HighlightAutoFit ==
    /\ \A k \in 1..Len(cmds) :
          /\ cmds[k].line = 278 => cmds[k].w = C10_FitWidth
          /\ cmds[k].line = 213 => cmds[k].h = C10_FitWidth
    /\ lpc = "done" =>
          Len(HighlightRectsDrawn)
              = Cardinality({k \in 1..Len(cfg.visible_columns) :
                               cfg.visible_columns[k] = cfg.highlight_column})

C10_Witness ==
    /\ lpc = "done"
    /\ cfg.label_width = 25
    /\ cfg.highlight_padding = 5
    /\ cfg.side_highlight
    /\ Len(HighlightRectsDrawn) = 1
    /\ HighlightRectsDrawn[1].w = 3000 * 7 * 762 + 5 * pt

\* A border rectangle is a rectangle that is stroked and not filled
IsBorderRect(c) == c.op = "rect" /\ c.fill = "none"
BorderRectsDrawn == SelectSeq(cmds, IsBorderRect)

\* C11: once the border step is over, a border rectangle has been emitted if
\* and only if show_border is true; when emitted it is the first draw command
\* of the label, unfilled, with its corner at (x, y) and the size of the
\* label; when show_border is false the first command, if any, is not a
\* border rectangle.
C11_BorderFirst ==
    lpc # "border" =>
        /\ Len(BorderRectsDrawn) = (IF cfg.show_border THEN 1 ELSE 0)
        /\ cfg.show_border =>
              /\ Len(cmds) >= 1
              /\ cmds[1].op = "rect"
              /\ cmds[1].fill = "none"
              /\ cmds[1].stroke # "none"
              /\ cmds[1].x = cfg.x
              /\ cmds[1].y = cfg.y
              /\ cmds[1].w = cfg.label_width * mm
              /\ cmds[1].h = cfg.label_height * mm
        /\ (~cfg.show_border /\ Len(cmds) >= 1) => ~IsBorderRect(cmds[1])

C11_Witness ==
    /\ lpc = "done"
    /\ cfg.show_border
    /\ cfg.x = 5 * mm
    /\ cfg.y = 257 * mm
    /\ Len(cmds) >= 4
    /\ IsBorderRect(cmds[1])
    /\ cmds[1].w = 70 * mm
    /\ cmds[1].h = 35 * mm

\* A command of the text rows: column name, inline highlight rectangle, value
IsTextRowCmd(c) == IsNameCmd(c) \/ IsHighlightRect(c) \/ IsValueCmd(c)

\* The commands due before the text rows, written from the arguments alone
\* (visible_columns plays no part in them)
C12_PreRowCmds ==
    (IF cfg.show_border
     THEN << [line |-> 182, op |-> "rect", x |-> cfg.x, y |-> cfg.y,
              w |-> cfg.label_width * mm, h |-> cfg.label_height * mm,
              text |-> "", font |-> "", size |-> 0, fill |-> "none",
              stroke |-> "lightgrey", rot |-> 0] >>
     ELSE << >>)
    \o (IF SidebarOn THEN SidebarCmds ELSE << >>)
    \o (IF CodeOn THEN CodeCmds ELSE << >>)

\* The only failure left to a layout: a record without a column that the
\* side strip or the code symbol reads (the KeyError of C7)
C12_ColumnMissing ==
    \/ SidebarOn /\ ~HasColumn(cfg.highlight_column)
    \/ CodeOn /\ ~HasColumn(cfg.code_column)

\* C12: with an empty visible_columns list the row height is divided by a
\* row count of 1, so the division cannot fail; no text-row command (value,
\* column name, inline highlight rectangle) is emitted; the layout goes from
\* the code step to its end without drawing; and the border, side strip and
\* code symbol are the commands a non-empty list gets before its rows.
C12_EmptyColumns ==
    /\ cfg.visible_columns = << >> =>
          /\ \A k \in 1..Len(cmds) : ~IsTextRowCmd(cmds[k])
          /\ lpc = "error" => C12_ColumnMissing
          /\ lpc = "rows" => ENABLED Return /\ ~ENABLED DrawTextRow
          /\ lpc \in {"rows", "done"} =>
                /\ cmds = C12_PreRowCmds
                /\ row_height * 10
                      = (cfg.label_height * mm - 2 * cfg.padding * mm)
                           * cfg.row_height_factor
    /\ (cfg.visible_columns # << >> /\ lpc \in {"rows", "done"}) =>
          /\ Len(cmds) >= Len(C12_PreRowCmds)
          /\ SubSeq(cmds, 1, Len(C12_PreRowCmds)) = C12_PreRowCmds
          /\ \A k \in (Len(C12_PreRowCmds) + 1)..Len(cmds) :
                IsTextRowCmd(cmds[k])

C12_Witness ==
    /\ lpc = "done"
    /\ cfg.visible_columns = << >>
    /\ cfg.show_border
    /\ SidebarOn
    /\ CodeOn
    /\ Len(cmds) = 5
    /\ cmds[5].op = "barcode"

\* The arguments say a code symbol is configured
C13_CodeConfigured ==
    cfg.code_column # None /\ cfg.code_type \in {"QR", "Barcode"}

C13_StripWidth ==
    IF cfg.side_highlight /\ cfg.highlight_column # None
    THEN ((cfg.label_width * mm) \div 100) * cfg.sidebar_factor
    ELSE 0

C13_SymbolWidth ==
    IF cfg.code_type = "QR" THEN cfg.qr_size * mm ELSE cfg.barcode_width * mm

\* C13: once the code step is over, the text column starts (counted from the
\* label's x) at stripWidth + qr_left_offset + symbolWidth + 2mm when a code
\* symbol is configured (code column set, code type QR or Barcode;
\* symbolWidth is qr_size for QR and barcode_width for Barcode) and at
\* stripWidth + padding otherwise, text_left_offset added in both cases;
\* stripWidth is label_width * sidebar_factor when side_highlight and
\* highlight_column are both set and 0 otherwise; a drawn code symbol starts
\* at codeX = stripWidth + qr_left_offset.
C13_TextStart ==
    /\ lpc \in {"rows", "done"} =>
          /\ side_col_width = C13_StripWidth
          /\ text_x - cfg.x =
                (IF C13_CodeConfigured
                 THEN (C13_StripWidth + cfg.qr_left_offset * mm)
                        + C13_SymbolWidth + 2 * mm
                 ELSE C13_StripWidth + cfg.padding * mm)
                + cfg.text_left_offset * mm
          /\ \A k \in 1..Len(cmds) :
                cmds[k].op \in {"qr", "barcode"} =>
                   /\ C13_CodeConfigured
                   /\ cmds[k].x - cfg.x
                         = C13_StripWidth + cfg.qr_left_offset * mm
                   /\ cmds[k].w = C13_SymbolWidth
          /\ \A k \in 1..Len(cmds) :
                IsValueCmd(cmds[k]) =>
                   cmds[k].x = text_x + (avail_w \div 5) * 2

C13_Witness ==
    /\ lpc = "done"
    /\ cfg.code_type = "Barcode"
    /\ cfg.code_column = "ID"
    /\ cfg.side_highlight
    /\ cfg.highlight_column = "Species"
    /\ cfg.sidebar_factor = 25
    /\ cfg.label_width = 70
    /\ cfg.qr_left_offset = 5
    /\ cfg.text_left_offset = 3
    /\ cfg.x = 0
    /\ text_x = (70 * mm) \div 4 + 5 * mm + cfg.barcode_width * mm
                   + 2 * mm + 3 * mm
    /\ Len(ValueCmdsDrawn) >= 1

\* Measured widths of the side strip's texts
C14_ValueWidth ==
    stringWidth(df_row[cfg.highlight_column],
                font_variant(cfg.label_font, "bold"), cfg.label_font_size)
C14_NameWidth ==
    stringWidth(ColLabel(cfg.highlight_column),
                font_variant(cfg.label_font, "italic"), cfg.label_font_size)
C14_BoxLength == C14_ValueWidth + cfg.highlight_padding * pt

IsSideCmd(c) == c.line \in {206, 213, 218}
SideCmdsDrawn == SelectSeq(cmds, IsSideCmd)

\* The strip drawn as a stack of the given span centred in the label's
\* height: the name (rotated, centred on its half width) at the bottom, then
\* the 1mm gap, then the value's black box with the value centred in it.
C14_StripCentredOn(span) ==
    LET bottom == cfg.y + (cfg.label_height * mm - span) \div 2
        strip == ((cfg.label_width * mm) \div 100) * cfg.sidebar_factor
        name == SideCmdsDrawn[1]
        box == SideCmdsDrawn[2]
        value == SideCmdsDrawn[3]
    IN  /\ name.line = 206 /\ box.line = 213 /\ value.line = 218
        /\ name.text = ColLabel(cfg.highlight_column)
        /\ name.rot = 90
        /\ name.x = cfg.x + strip \div 2
        /\ name.y = bottom + C14_NameWidth \div 2
        /\ box.op = "rect" /\ box.fill = "black"
        /\ box.x = cfg.x
        /\ box.y = bottom + C14_NameWidth + 1 * mm
        /\ box.w = strip
        /\ box.h = C14_BoxLength
        /\ value.text = df_row[cfg.highlight_column]
        /\ value.rot = 90
        /\ value.fill = "white"
        /\ value.x = cfg.x + strip \div 2
        /\ value.y = box.y + C14_BoxLength \div 2

C14_StripDrawn == lpc \in {"code", "rows", "done"} /\ Len(SideCmdsDrawn) > 0

\* C14 as claimed: the span centred in the label is the value's measured
\* width + 1mm + the name's measured width, for every highlight_padding.
C14_Original ==
    C14_StripDrawn =>
        /\ Len(SideCmdsDrawn) = 3
        /\ C14_StripCentredOn(C14_ValueWidth + 1 * mm + C14_NameWidth)

\* C14 (amended): when the side strip is drawn, the span centred in the
\* label's height is the value box's length + 1mm + the name's measured
\* width, the box's length being the value's measured width (bold variant)
\* + highlight_padding; the name ("name:", italic variant) is at the bottom
\* of the span, the box above it after the 1mm gap, and the box is
\* label_width * sidebar_factor wide.  The strip is drawn exactly when
\* side_highlight and highlight_column are set.
C14_SideStrip ==
    /\ C14_StripDrawn =>
          /\ Len(SideCmdsDrawn) = 3
          /\ C14_StripCentredOn(C14_BoxLength + 1 * mm + C14_NameWidth)
    /\ lpc \in {"code", "rows", "done"} =>
          (Len(SideCmdsDrawn) > 0
              <=> (cfg.side_highlight /\ cfg.highlight_column # None))

C14_Witness ==
    /\ lpc = "done"
    /\ Len(SideCmdsDrawn) = 3
    /\ cfg.highlight_padding = 5
    /\ cfg.highlight_column = "Species"
    /\ cfg.label_font = "Helvetica"
    /\ cfg.label_height = 35
    /\ cfg.y = 0
    /\ SideCmdsDrawn[2].h = 3000 * 7 * 762 + 5 * pt
    /\ SideCmdsDrawn[2].y
          = (35 * mm - (3000 * 7 * 762 + 5 * pt + 1 * mm + C14_NameWidth))
               \div 2 + C14_NameWidth + 1 * mm

====
